---- MODULE Spec2Model ----
(***************************************************************************)
(* Runtime orchestrator of the mini soil sensor firmware (boot.py, main.py):*)
(* boot-time configuration load and provisioning, the sampling tick, the   *)
(* telemetry publisher and the single-connection HTTP dispatcher.          *)
(*                                                                         *)
(* Python strings are sequences of one-character strings, so that the      *)
(* substring tests, find/split/slice and url_decode of the source are      *)
(* computed character by character.  Python's None in a string position is *)
(* the one-element sequence <<"None">>, which no character sequence        *)
(* equals.                                                                 *)
(***************************************************************************)
EXTENDS Integers, Sequences, FiniteSets, TLC

(***************************************************************************)
(* Program constants                                                       *)
(***************************************************************************)
DEFAULT_DRY == 8191
DEFAULT_WET == 4300
DEFAULT_PORT == 1883
DEFAULT_BRIGHTNESS == 50
WIFI_TIMEOUT == 15
READING_DELAY_MS == 5000
ACCEPT_TIMEOUT_MS == 1000
NUM_SAMPLES == 10

(***************************************************************************)
(* Bounds of the model                                                     *)
(***************************************************************************)
\* the clock "milliseconds since last_read_time" saturates at this many
\* accept timeouts past the reading delay
MaxLateTimeouts == 1

\* in ConversionSpec the calibration bounds run from -1 to MaxCal, and
\* the averaged raw value from 0 to MaxRaw
MaxCal == 7
MaxRaw == 9

None == <<"None">>
DEFAULT_BROKER == <<>>
DEFAULT_USER == <<>>
DEFAULT_PASS == <<>>
DEFAULT_DHT_ENABLED == FALSE
DEFAULT_TEMP_UNIT_C == TRUE

(***************************************************************************)
(* Python string primitives                                                *)
(***************************************************************************)
Max(a, b) == IF a >= b THEN a ELSE b
Min(a, b) == IF a <= b THEN a ELSE b

\* truthiness of an Optional[str]: None and "" are falsy
Truthy(s) == s # None /\ s # <<>>

\* sub in s
Contains(s, sub) ==
    \E i \in 1..(Len(s) - Len(sub) + 1) : SubSeq(s, i, i + Len(sub) - 1) = sub

\* s.find(sub, start): lowest 0-based index >= start, or -1; a negative
\* start counts from the end
Find(s, sub, start) ==
    LET from == IF start >= 0 THEN start ELSE Max(Len(s) + start, 0)
        hits == {i \in from..(Len(s) - Len(sub)) :
                    SubSeq(s, i + 1, i + Len(sub)) = sub}
    IN  IF hits = {} THEN -1
        ELSE CHOOSE i \in hits : \A j \in hits : i <= j

\* s[a:b] with 0-based a >= 0 and b possibly negative (counted from the end)
Slice(s, a, b) ==
    LET e == IF b < 0 THEN (IF Len(s) + b < 0 THEN 0 ELSE Len(s) + b)
             ELSE (IF b > Len(s) THEN Len(s) ELSE b)
    IN  SubSeq(s, a + 1, e)

\* s.split(c) for a one-character separator
RECURSIVE Split(_, _)
Split(s, c) ==
    LET i == Find(s, <<c>>, 0)
    IN  IF i = -1 THEN <<s>>
        ELSE <<SubSeq(s, 1, i)>> \o Split(SubSeq(s, i + 2, Len(s)), c)

\* s.strip() of spaces
RECURSIVE Strip(_)
Strip(s) ==
    IF s = <<>> THEN s
    ELSE IF Head(s) = " " THEN Strip(Tail(s))
    ELSE IF s[Len(s)] = " " THEN Strip(SubSeq(s, 1, Len(s) - 1))
    ELSE s

HexDigits ==
    {"0","1","2","3","4","5","6","7","8","9",
     "a","b","c","d","e","f","A","B","C","D","E","F"}
DecDigits == {"0","1","2","3","4","5","6","7","8","9"}

DigitVal(c) ==
    CASE c = "0" -> 0 [] c = "1" -> 1 [] c = "2" -> 2 [] c = "3" -> 3
      [] c = "4" -> 4 [] c = "5" -> 5 [] c = "6" -> 6 [] c = "7" -> 7
      [] c = "8" -> 8 [] c = "9" -> 9
      [] c \in {"a","A"} -> 10 [] c \in {"b","B"} -> 11
      [] c \in {"c","C"} -> 12 [] c \in {"d","D"} -> 13
      [] c \in {"e","E"} -> 14 [] c \in {"f","F"} -> 15

RECURSIVE DigitsVal(_, _, _)
DigitsVal(s, base, acc) ==
    IF s = <<>> THEN acc
    ELSE DigitsVal(Tail(s), base, acc * base + DigitVal(Head(s)))

\* int(s, base): an optional sign, then one or more digits; anything else is
\* a ValueError (ok = FALSE)
ParseInt(s, base) ==
    LET signed == s # <<>> /\ Head(s) \in {"+", "-"}
        body   == IF signed THEN Tail(s) ELSE s
        digits == IF base = 16 THEN HexDigits ELSE DecDigits
        ok     == body # <<>> /\ \A i \in 1..Len(body) : body[i] \in digits
        mag    == IF ok THEN DigitsVal(body, base, 0) ELSE 0
    IN  [ok |-> ok,
         val |-> IF signed /\ Head(s) = "-" THEN 0 - mag ELSE mag]

\* chr(n) on the characters the model's requests can name; any other code
\* point is the one placeholder character "?"
Chr(n) ==
    CASE n = 32 -> " " [] n = 37 -> "%" [] n = 38 -> "&" [] n = 43 -> "+"
      [] n = 61 -> "=" [] n = 65 -> "A" [] n = 66 -> "B"
      [] OTHER -> "?"

\* url_decode: the loop of the source from index i (0-based) with result res
RECURSIVE UrlDecodeFrom(_, _, _)
UrlDecodeFrom(s, i, res) ==
    IF ~(i < Len(s)) THEN res
    ELSE IF s[i + 1] = "%" THEN
        IF i + 2 < Len(s) THEN
            LET p == ParseInt(SubSeq(s, i + 2, i + 3), 16)
            IN  IF p.ok /\ p.val >= 0
                THEN UrlDecodeFrom(s, i + 3, Append(res, Chr(p.val)))
                ELSE UrlDecodeFrom(s, i + 1, Append(res, s[i + 1]))
        ELSE UrlDecodeFrom(s, i + 1, Append(res, s[i + 1]))
    ELSE IF s[i + 1] = "+" THEN UrlDecodeFrom(s, i + 1, Append(res, " "))
    ELSE UrlDecodeFrom(s, i + 1, Append(res, s[i + 1]))

url_decode(s) == UrlDecodeFrom(s, 0, <<>>)

(***************************************************************************)
(* The persisted configuration record (config.json).  ok = FALSE is a file *)
(* that is missing or does not parse; keys is the set of keys present; v   *)
(* holds a value for every key (a fixed filler under an absent key).       *)
(***************************************************************************)
ConfigKeys ==
    {"ssid", "password", "dry", "wet", "mqtt_broker", "mqtt_port",
     "mqtt_user", "mqtt_pass", "brightness", "dht_enabled", "temp_unit_c"}

Filler ==
    [ssid |-> None, password |-> None, dry |-> 0, wet |-> 0,
     mqtt_broker |-> None, mqtt_port |-> 0, mqtt_user |-> None,
     mqtt_pass |-> None, brightness |-> 0, dht_enabled |-> FALSE,
     temp_unit_c |-> FALSE]

NoFile == [ok |-> FALSE, keys |-> {}, v |-> Filler]

MkFile(keys, vals) ==
    [ok |-> TRUE, keys |-> keys,
     v |-> [k \in DOMAIN Filler |-> IF k \in keys THEN vals[k] ELSE Filler[k]]]

\* config.get(k, default)
Get(f, k, default) == IF k \in f.keys THEN f.v[k] ELSE default

S_Old == <<"O", "l", "d">>
S_Pwd == <<"P", "w", "d">>
S_MyWifi == <<"M", "y", "W", "i", "f", "i">>
S_Secret == <<"S", "e", "c", "r", "e", "t">>
S_host == <<"h">>

FullRecord ==
    [ssid |-> S_Old, password |-> S_Pwd, dry |-> DEFAULT_DRY,
     wet |-> DEFAULT_WET, mqtt_broker |-> <<>>, mqtt_port |-> DEFAULT_PORT,
     mqtt_user |-> <<>>, mqtt_pass |-> <<>>, brightness |-> 200,
     dht_enabled |-> FALSE, temp_unit_c |-> TRUE]

\* the stored files a run starts from: none, a complete record without and
\* with a broker, equal calibration bounds, an old record holding only the
\* credentials, a record without credentials, and one with a blank password
InitialFiles ==
    { NoFile,
      MkFile(ConfigKeys, FullRecord),
      MkFile(ConfigKeys, [FullRecord EXCEPT !.mqtt_broker = S_host,
                                            !.dht_enabled = TRUE,
                                            !.temp_unit_c = FALSE]),
      MkFile(ConfigKeys, [FullRecord EXCEPT !.dry = 5000, !.wet = 5000]),
      MkFile({"ssid", "password"}, FullRecord),
      MkFile(ConfigKeys \ {"ssid", "password"}, FullRecord),
      MkFile(ConfigKeys, [FullRecord EXCEPT !.password = <<>>]) }

(***************************************************************************)
(* State                                                                   *)
(***************************************************************************)
VARIABLES
    pc,                       \* position of the one thread of control
    file,                     \* contents of config.json
    boot,                     \* boot.py's module globals
    sta_connected,            \* sta_if.isconnected()
    sta_active,               \* sta_if.active()
    ap_active,                \* ap_if.active()
    led,                      \* onboard LED: "on" / "off"
    timeout,                  \* connect_to_wifi's countdown
    connect_calls,            \* number of sta_if.connect() calls
    CALIBRATION_DRY, CALIBRATION_WET, BRIGHTNESS_LEVEL,
    DHT_ENABLED, TEMP_UNIT_C, \* main.py's module globals
    np, adc, d,               \* peripherals: TRUE when the object exists
    current_raw_reading,
    current_moisture_percent, \* in tenths of a percent
    current_temp_c, current_humidity,   \* in tenths
    np_color,                 \* last colour written to the NeoPixel
    mqtt_client,              \* "None" or "client"
    is_config_mode,           \* run_project's local
    brokerConn,               \* the client's TCP connection: closed / open
    inbox,                    \* message the broker holds for the command
                              \* subscription
    since,                    \* ticks_diff(ticks_ms(), last_read_time)
    tickLog,                  \* events of the current sampling tick
    cycle,                    \* what the last sampling tick did
    request,                  \* request read from the accepted connection
    handled,                  \* how handle_config_submission ended for it
    response,                 \* what was sent on it
    conn_open,                \* the accepted connection is still open
    restartCause,             \* why machine.reset() was called
    history                   \* facts about the run so far

vars ==
    <<pc, file, boot, sta_connected, sta_active, ap_active, led, timeout,
      connect_calls, CALIBRATION_DRY, CALIBRATION_WET, BRIGHTNESS_LEVEL,
      DHT_ENABLED, TEMP_UNIT_C, np, adc, d, current_raw_reading,
      current_moisture_percent, current_temp_c, current_humidity, np_color,
      mqtt_client, is_config_mode, brokerConn, inbox, since, tickLog, cycle,
      request, handled, response, conn_open, restartCause, history>>

bootVars == <<boot, sta_connected, sta_active, ap_active, led, timeout,
              connect_calls>>
configVars == <<CALIBRATION_DRY, CALIBRATION_WET, BRIGHTNESS_LEVEL,
                DHT_ENABLED, TEMP_UNIT_C>>
periphVars == <<np, adc, d>>
readingVars == <<current_raw_reading, current_moisture_percent,
                 current_temp_c, current_humidity, np_color>>
mqttVars == <<mqtt_client, brokerConn>>
httpVars == <<request, handled, response, conn_open>>

NoMsg == [topic |-> "", msg |-> ""]
NoRequest ==
    [req |-> <<>>, submission |-> FALSE, config_path |-> FALSE,
     new_ssid |-> <<"None">>, new_password |-> <<"None">>,
     dry_val |-> <<"None">>, wet_val |-> <<"None">>, broker |-> <<"None">>,
     port |-> <<"None">>, user |-> <<"None">>, mqtt_pass |-> <<"None">>,
     brightness |-> <<"None">>, dht_checkbox_val |-> <<"None">>,
     temp_unit_val |-> <<"None">>]
NoResponse == [kind |-> "none", message |-> "", page |-> <<>>]
NoPayload == [raw |-> -1, moisture_percent |-> -1, has_env |-> FALSE,
              temperature_c |-> 0, humidity_percent |-> 0]
NoCycle == [ran |-> FALSE, polled |-> FALSE, connectTried |-> FALSE,
            publishTried |-> FALSE, delivered |-> NoMsg,
            pendingAtStart |-> NoMsg, clientAtStart |-> "None",
            published |-> NoPayload]
NoHistory == [clientConstructed |-> FALSE, connectAttempted |-> FALSE,
              dropped |-> FALSE, saved |-> FALSE, file0 |-> NoFile]

\* boot.py lines 46-57: the globals before the load
BootDefaults ==
    [wifi_ssid |-> None, wifi_password |-> None,
     CALIBRATION_DRY |-> DEFAULT_DRY, CALIBRATION_WET |-> DEFAULT_WET,
     MQTT_BROKER |-> DEFAULT_BROKER, MQTT_PORT |-> DEFAULT_PORT,
     MQTT_USER |-> DEFAULT_USER, MQTT_PASSWORD |-> DEFAULT_PASS,
     BRIGHTNESS_LEVEL |-> DEFAULT_BRIGHTNESS,
     DHT_ENABLED |-> DEFAULT_DHT_ENABLED, TEMP_UNIT_C |-> DEFAULT_TEMP_UNIT_C]

Init ==
    /\ pc = "boot_load"
    /\ file \in InitialFiles
    /\ boot = BootDefaults
    /\ sta_connected \in BOOLEAN     \* a soft reset can keep the association
    /\ sta_active = sta_connected
    /\ ap_active = FALSE
    /\ led = "off"
    /\ timeout = 0
    /\ connect_calls = 0
    /\ CALIBRATION_DRY = DEFAULT_DRY
    /\ CALIBRATION_WET = DEFAULT_WET
    /\ BRIGHTNESS_LEVEL = DEFAULT_BRIGHTNESS
    /\ DHT_ENABLED = FALSE
    /\ TEMP_UNIT_C = TRUE
    /\ np = FALSE /\ adc = FALSE /\ d = FALSE
    /\ current_raw_reading = 0
    /\ current_moisture_percent = 0
    /\ current_temp_c = 0
    /\ current_humidity = 0
    /\ np_color = <<0, 0, 0>>
    /\ mqtt_client = "None"
    /\ is_config_mode = FALSE
    /\ brokerConn = "closed"
    /\ inbox = NoMsg
    /\ since = 0
    /\ tickLog = <<>>
    /\ cycle = NoCycle
    /\ request = NoRequest
    /\ handled = "none"
    /\ response = NoResponse
    /\ conn_open = FALSE
    /\ restartCause = "none"
    /\ history = [NoHistory EXCEPT !.file0 = file]

(***************************************************************************)
(* boot.py                                                                 *)
(***************************************************************************)
\* the load taking the stored values only from a complete record
LoadConfig_all_or_nothing(f) ==
    IF f.ok /\ f.keys = ConfigKeys
    THEN [wifi_ssid |-> f.v.ssid, wifi_password |-> f.v.password,
          CALIBRATION_DRY |-> f.v.dry, CALIBRATION_WET |-> f.v.wet,
          MQTT_BROKER |-> f.v.mqtt_broker, MQTT_PORT |-> f.v.mqtt_port,
          MQTT_USER |-> f.v.mqtt_user, MQTT_PASSWORD |-> f.v.mqtt_pass,
          BRIGHTNESS_LEVEL |-> f.v.brightness,
          DHT_ENABLED |-> f.v.dht_enabled, TEMP_UNIT_C |-> f.v.temp_unit_c]
    ELSE [BootDefaults EXCEPT !.wifi_ssid = None, !.wifi_password = None]

\* lines 112-138: the load; any failure leaves the defaults and clears the
\* credentials
LoadConfig(f) ==
    IF f.ok
    THEN [wifi_ssid |-> Get(f, "ssid", None),
          wifi_password |-> Get(f, "password", None),
          CALIBRATION_DRY |-> Get(f, "dry", DEFAULT_DRY),
          CALIBRATION_WET |-> Get(f, "wet", DEFAULT_WET),
          MQTT_BROKER |-> Get(f, "mqtt_broker", DEFAULT_BROKER),
          MQTT_PORT |-> Get(f, "mqtt_port", DEFAULT_PORT),
          MQTT_USER |-> Get(f, "mqtt_user", DEFAULT_USER),
          MQTT_PASSWORD |-> Get(f, "mqtt_pass", DEFAULT_PASS),
          BRIGHTNESS_LEVEL |-> Get(f, "brightness", DEFAULT_BRIGHTNESS),
          DHT_ENABLED |-> Get(f, "dht_enabled", DEFAULT_DHT_ENABLED),
          TEMP_UNIT_C |-> Get(f, "temp_unit_c", DEFAULT_TEMP_UNIT_C)]
    ELSE [BootDefaults EXCEPT !.wifi_ssid = None, !.wifi_password = None]

BootLoadConfig ==
    /\ pc = "boot_load"
    /\ boot' = LoadConfig(file)
    /\ led' = "off"
    /\ pc' = "boot_decide"
    /\ UNCHANGED <<file, sta_connected, sta_active, ap_active, timeout,
                   connect_calls, configVars, periphVars, readingVars,
                   mqttVars, is_config_mode, inbox, since, tickLog, cycle,
                   httpVars, restartCause, history>>

\* line 141 and connect_to_wifi lines 62-74
BootStartConnect ==
    /\ pc = "boot_decide"
    /\ Truthy(boot.wifi_ssid) /\ Truthy(boot.wifi_password)
    /\ sta_active' = TRUE
    /\ IF sta_connected
       THEN /\ led' = "on"
            /\ pc' = "main_init"
            /\ UNCHANGED <<timeout, connect_calls>>
       ELSE /\ connect_calls' = connect_calls + 1
            /\ timeout' = WIFI_TIMEOUT
            /\ pc' = "wifi_wait"
            /\ UNCHANGED led
    /\ UNCHANGED <<file, boot, sta_connected, ap_active, configVars,
                   periphVars, readingVars, mqttVars, is_config_mode, inbox,
                   since, tickLog, cycle, httpVars, restartCause, history>>

\* lines 75-78: one pass of the wait loop; the association may complete
\* during the one-second sleep
WifiPoll ==
    /\ pc = "wifi_wait"
    /\ ~sta_connected /\ timeout > 0
    /\ timeout' = timeout - 1
    /\ sta_connected' \in BOOLEAN
    /\ UNCHANGED <<pc, file, boot, sta_active, ap_active, led, connect_calls,
                   configVars, periphVars, readingVars, mqttVars,
                   is_config_mode, inbox, since, tickLog, cycle, httpVars,
                   restartCause, history>>

\* lines 80-84
WifiConnected ==
    /\ pc = "wifi_wait"
    /\ sta_connected
    /\ led' = "on"
    /\ timeout' = 0
    /\ pc' = "main_init"
    /\ UNCHANGED <<file, boot, sta_connected, sta_active, ap_active,
                   connect_calls, configVars, periphVars, readingVars,
                   mqttVars, is_config_mode, inbox, since, tickLog, cycle,
                   httpVars, restartCause, history>>

\* WifiFailed without the sta_if.active(False) of line 87
WifiFailed_station_left_on ==
    /\ pc = "wifi_wait"
    /\ ~sta_connected /\ timeout = 0
    /\ led' = "off"
    /\ ap_active' = TRUE
    /\ pc' = "main_init"
    /\ UNCHANGED <<file, boot, sta_connected, sta_active, timeout,
                   connect_calls, configVars, periphVars, readingVars,
                   mqttVars, is_config_mode, inbox, since, tickLog, cycle,
                   httpVars, restartCause, history>>

\* lines 85-89, then lines 142-144 and start_config_portal
WifiFailed ==
    /\ pc = "wifi_wait"
    /\ ~sta_connected /\ timeout = 0
    /\ sta_active' = FALSE
    /\ led' = "off"
    /\ ap_active' = TRUE
    /\ pc' = "main_init"
    /\ UNCHANGED <<file, boot, sta_connected, timeout, connect_calls,
                   configVars, periphVars, readingVars, mqttVars,
                   is_config_mode, inbox, since, tickLog, cycle, httpVars,
                   restartCause, history>>

\* lines 145-146 and start_config_portal
BootStartPortal ==
    /\ pc = "boot_decide"
    /\ ~(Truthy(boot.wifi_ssid) /\ Truthy(boot.wifi_password))
    /\ led' = "off"
    /\ ap_active' = TRUE
    /\ pc' = "main_init"
    /\ UNCHANGED <<file, boot, sta_connected, sta_active, timeout,
                   connect_calls, configVars, periphVars, readingVars,
                   mqttVars, is_config_mode, inbox, since, tickLog, cycle,
                   httpVars, restartCause, history>>

(***************************************************************************)
(* main.py: module initialisation                                          *)
(***************************************************************************)
\* lines 52-53: main.py's own flags, not boot's
MAIN_DHT_ENABLED == FALSE
MAIN_TEMP_UNIT_C == TRUE

\* lines 12-98; the NeoPixel and the ADC may fail to initialise
\* initialize_dht creates the sensor object only when DHT_ENABLED
MainInit ==
    /\ pc = "main_init"
    /\ CALIBRATION_DRY' = boot.CALIBRATION_DRY
    /\ CALIBRATION_WET' = boot.CALIBRATION_WET
    /\ BRIGHTNESS_LEVEL' = boot.BRIGHTNESS_LEVEL
    /\ DHT_ENABLED' = MAIN_DHT_ENABLED
    /\ TEMP_UNIT_C' = MAIN_TEMP_UNIT_C
    /\ np' \in BOOLEAN
    /\ adc' \in BOOLEAN
    /\ d' \in (IF MAIN_DHT_ENABLED THEN BOOLEAN ELSE {FALSE})
    /\ pc' = "run_project"
    /\ UNCHANGED <<file, bootVars, readingVars, mqttVars, is_config_mode,
                   inbox, since, tickLog, cycle, httpVars, restartCause,
                   history>>

(***************************************************************************)
(* Sensor sampling pipeline                                                *)
(***************************************************************************)
\* round(n / dn * 100, 1) in tenths, for dn # 0: the nearest tenth, ties to
\* the even one
RoundTenths(n, dn) ==
    LET num == IF dn < 0 THEN 0 - n ELSE n
        den == IF dn < 0 THEN 0 - dn ELSE dn
        q   == (num * 1000) \div den
        r   == (num * 1000) % den
    IN  IF 2 * r > den THEN q + 1
        ELSE IF 2 * r < den THEN q
        ELSE IF q % 2 = 0 THEN q ELSE q + 1

\* set_neopixel_color writing nothing: the indicator keeps its old colour
set_neopixel_color_stale(old, hasNp, percentTenths, brightness) == old

\* set_neopixel_color, lines 130-155: the colour written, or the old one
\* when there is no NeoPixel
set_neopixel_color(old, hasNp, percentTenths, brightness) ==
    LET base == IF percentTenths < 200 THEN <<255, 0, 0>>
                ELSE IF percentTenths < 500 THEN <<255, 165, 0>>
                ELSE <<0, 255, 0>>
    IN  IF ~hasNp THEN old
        ELSE <<(base[1] * brightness) \div 255,
               (base[2] * brightness) \div 255,
               (base[3] * brightness) \div 255>>

\* read_moisture with the clamp of line 117 lost
read_moisture_unclamped(hasAdc, dry, wet, sum) ==
    LET raw_value      == sum \div NUM_SAMPLES
        moisture_range == dry - wet
        moisture_value == raw_value - wet
    IN  IF ~hasAdc
        THEN [raised |-> FALSE, sampled |-> FALSE, raw |-> 0, percent |-> 0]
        ELSE IF moisture_range = 0
        THEN [raised |-> TRUE, sampled |-> TRUE, raw |-> raw_value,
              percent |-> 0]
        ELSE [raised |-> FALSE, sampled |-> TRUE, raw |-> raw_value,
              percent |-> RoundTenths(moisture_range - moisture_value,
                                      moisture_range)]

\* read_moisture with the wet bound not subtracted in line 119
read_moisture_unshifted(hasAdc, dry, wet, sum) ==
    LET raw_value         == sum \div NUM_SAMPLES
        constrained_value == Max(wet, Min(dry, raw_value))
        moisture_range    == dry - wet
    IN  IF ~hasAdc
        THEN [raised |-> FALSE, sampled |-> FALSE, raw |-> 0, percent |-> 0]
        ELSE IF moisture_range = 0
        THEN [raised |-> TRUE, sampled |-> TRUE, raw |-> raw_value,
              percent |-> 0]
        ELSE [raised |-> FALSE, sampled |-> TRUE, raw |-> raw_value,
              percent |-> RoundTenths(moisture_range - constrained_value,
                                      moisture_range)]

\* read_moisture with the test of line 104 lost: adc.read() is called on
\* None and raises
read_moisture_unguarded(hasAdc, dry, wet, sum) ==
    LET raw_value         == sum \div NUM_SAMPLES
        constrained_value == Max(wet, Min(dry, raw_value))
        moisture_range    == dry - wet
        moisture_value    == constrained_value - wet
    IN  IF ~hasAdc \/ moisture_range = 0
        THEN [raised |-> TRUE, sampled |-> hasAdc,
              raw |-> IF hasAdc THEN raw_value ELSE 0, percent |-> 0]
        ELSE [raised |-> FALSE, sampled |-> TRUE, raw |-> raw_value,
              percent |-> RoundTenths(moisture_range - moisture_value,
                                      moisture_range)]

\* read_moisture, lines 101-127, on the sum of the NUM_SAMPLES reads.
\* raised = TRUE is the ZeroDivisionError of line 121.
read_moisture(hasAdc, dry, wet, sum) ==
    LET raw_value         == sum \div NUM_SAMPLES
        constrained_value == Max(wet, Min(dry, raw_value))
        moisture_range    == dry - wet
        moisture_value    == constrained_value - wet
    IN  IF ~hasAdc
        THEN [raised |-> FALSE, sampled |-> FALSE, raw |-> 0, percent |-> 0]
        ELSE IF moisture_range = 0
        THEN [raised |-> TRUE, sampled |-> TRUE, raw |-> raw_value,
              percent |-> 0]
        ELSE [raised |-> FALSE, sampled |-> TRUE, raw |-> raw_value,
              percent |-> RoundTenths(moisture_range - moisture_value,
                                      moisture_range)]

\* the sums of ten 13-bit reads a tick can see
SampleSums == {43000, 62459}

\* what one d.measure() can give: a reading in tenths, or an OSError
DhtOutcomes == {[ok |-> TRUE, t |-> 215, h |-> 480], [ok |-> FALSE, t |-> 0, h |-> 0]}

\* read_dht, lines 157-177
read_dht(enabled, hasD, out) ==
    IF ~enabled \/ ~hasD THEN [t |-> 0, h |-> 0]
    ELSE IF out.ok THEN [t |-> out.t, h |-> out.h]
    ELSE [t |-> 0, h |-> 0]

(***************************************************************************)
(* Telemetry publisher                                                     *)
(***************************************************************************)
TOPIC_PUB == "sensors/moisture/esp32-000/data"
TOPIC_SUB_COMMAND == "sensors/moisture/esp32-000/cmd"

\* sub_callback with the topic test lost
sub_callback_any_topic(topic, msg) == msg = "reboot"

\* sub_callback, lines 277-285: TRUE when it calls machine.reset()
sub_callback(topic, msg) == topic = TOPIC_SUB_COMMAND /\ msg = "reboot"

\* outcomes of MQTTClient.connect()/subscribe()
ConnectOutcomes == {"ok", "connect_fail", "subscribe_fail"}
\* outcomes of check_msg() and publish(): success, OSError 104, OSError 113,
\* another OSError, an exception that is no OSError
IOOutcomes == {"ok", "e104", "e113", "eother", "exc"}

\* mqtt_connect with the empty-broker test of lines 293-295 lost
mqtt_connect_unguarded(client, conn, broker, out) ==
    [global |-> "client",
     ret |-> IF out = "ok" THEN "client" ELSE "None",
     conn |-> IF out = "connect_fail" THEN "closed" ELSE "open",
     constructed |-> TRUE, attempted |-> TRUE]

\* mqtt_connect, lines 289-317.  global is the module's mqtt_client after
\* the call (line 302 assigns it before connect() can raise), ret the value
\* returned, conn the connection state.
mqtt_connect(client, conn, broker, out) ==
    IF ~Truthy(broker)
    THEN [global |-> client, ret |-> "None", conn |-> conn,
          constructed |-> FALSE, attempted |-> FALSE]
    ELSE [global |-> "client",
          ret |-> IF out = "ok" THEN "client" ELSE "None",
          conn |-> IF out = "connect_fail" THEN "closed" ELSE "open",
          constructed |-> TRUE, attempted |-> TRUE]

\* the try block of mqtt_publish, lines 328-340, for a held client
PublishTry(client, conn, box, payload, oldPub, pollOut, pubOut) ==
    LET got    == pollOut = "ok" /\ box # NoMsg
        reset  == got /\ sub_callback(box.topic, box.msg)
        out    == IF pollOut # "ok" THEN pollOut
                  ELSE IF reset THEN "reset" ELSE pubOut
    IN  [client |-> IF out \in {"e104", "e113"} THEN "None" ELSE client,
         conn |-> IF out \in {"ok", "reset"} THEN conn ELSE "closed",
         inbox |-> IF got THEN NoMsg ELSE box,
         delivered |-> IF got THEN box ELSE NoMsg,
         published |-> IF out = "ok" THEN payload ELSE oldPub,
         polled |-> TRUE,
         publishTried |-> pollOut = "ok" /\ ~reset,
         reset |-> reset,
         raised |-> out = "exc",
         dropped |-> out \in {"e104", "e113"}]

\* mqtt_publish, lines 319-340
mqtt_publish(client, conn, broker, box, payload, oldPub, connOut, pollOut, pubOut) ==
    LET c == mqtt_connect(client, conn, broker, connOut)
        t == PublishTry(IF client = "None" THEN c.ret ELSE client,
                        IF client = "None" THEN c.conn ELSE conn,
                        box, payload, oldPub, pollOut, pubOut)
        tried == client = "None" /\ c.attempted
    IN  IF client = "None" /\ c.ret = "None"
        THEN [client |-> "None", conn |-> c.conn, inbox |-> box,
              delivered |-> NoMsg, published |-> oldPub, polled |-> FALSE,
              publishTried |-> FALSE, reset |-> FALSE, raised |-> FALSE,
              dropped |-> FALSE, connectTried |-> tried,
              constructed |-> client = "None" /\ c.constructed]
        ELSE [client |-> t.client, conn |-> t.conn, inbox |-> t.inbox,
              delivered |-> t.delivered, published |-> t.published,
              polled |-> t.polled, publishTried |-> t.publishTried,
              reset |-> t.reset, raised |-> t.raised, dropped |-> t.dropped,
              connectTried |-> tried,
              constructed |-> client = "None" /\ c.constructed]

(***************************************************************************)
(* Configuration submission                                                *)
(***************************************************************************)
S_GETq == <<"G", "E", "T", " ", "/", "?">>
S_dryEq == <<"d", "r", "y", "=">>
S_GETconfig == <<"G", "E", "T", " ", "/", "c", "o", "n", "f", "i", "g">>
K_ssid == <<"s", "s", "i", "d">>
K_pass == <<"p", "a", "s", "s">>
K_dry == <<"d", "r", "y">>
K_wet == <<"w", "e", "t">>
K_broker == <<"b", "r", "o", "k", "e", "r">>
K_port == <<"p", "o", "r", "t">>
K_user == <<"u", "s", "e", "r">>
K_mqtt_pass == <<"m", "q", "t", "t", "_", "p", "a", "s", "s">>
K_brightness == <<"b", "r", "i", "g", "h", "t", "n", "e", "s", "s">>
K_dht_enabled == <<"d", "h", "t", "_", "e", "n", "a", "b", "l", "e", "d">>
K_temp_unit == <<"t", "e", "m", "p", "_", "u", "n", "i", "t">>
S_true == <<"t", "r", "u", "e">>
S_C == <<"C">>

\* lines 347 and 686: the submission signature
IsSubmission(req) == Contains(req, S_GETq) /\ Contains(req, S_dryEq)

\* line 698: the request names the configuration page
IsConfigPath(req) == Contains(req, S_GETconfig)

\* lines 352-359: the query string and its parameters
QueryParams(req) ==
    LET q_start == Find(req, <<"?">>, 0)
        q_end   == Find(req, <<" ">>, q_start)
    IN  Split(Slice(req, q_start + 1, q_end), "&")

\* lines 375-393: the value the loop leaves in the variable of key, None
\* when no key=value pair names it (the last pair wins)
ParamValue(params, key) ==
    LET named == {i \in 1..Len(params) :
                     /\ Contains(params[i], <<"=">>)
                     /\ SubSeq(params[i], 1, Find(params[i], <<"=">>, 0)) = key}
        last  == CHOOSE i \in named : \A j \in named : j <= i
    IN  IF named = {} THEN None
        ELSE SubSeq(params[last], Find(params[last], <<"=">>, 0) + 2,
                    Len(params[last]))

\* A request as the dispatcher sees it: its text, the two routing tests, and
\* the variables the parameter loop of lines 367-393 fills from it
ParseRequest(req) ==
    LET params == IF IsSubmission(req) THEN QueryParams(req) ELSE <<>>
    IN  [req |-> req,
         submission |-> IsSubmission(req),
         config_path |-> IsConfigPath(req),
         new_ssid |-> ParamValue(params, K_ssid),
         new_password |-> ParamValue(params, K_pass),
         dry_val |-> ParamValue(params, K_dry),
         wet_val |-> ParamValue(params, K_wet),
         broker |-> ParamValue(params, K_broker),
         port |-> ParamValue(params, K_port),
         user |-> ParamValue(params, K_user),
         mqtt_pass |-> ParamValue(params, K_mqtt_pass),
         brightness |-> ParamValue(params, K_brightness),
         dht_checkbox_val |-> ParamValue(params, K_dht_enabled),
         temp_unit_val |-> ParamValue(params, K_temp_unit)]

\* load_current_wifi_config, lines 249-256
load_current_wifi_config(f) ==
    IF f.ok THEN <<Get(f, "ssid", None), Get(f, "password", None)>>
    ELSE <<None, None>>

\* load_current_config_details, lines 258-275; b holds the module globals
\* MQTT_BROKER .. MQTT_PASSWORD that main.py copied from boot
load_current_config_details(f, b, g) ==
    IF f.ok
    THEN <<Get(f, "mqtt_broker", b.MQTT_BROKER),
           Get(f, "mqtt_port", b.MQTT_PORT),
           Get(f, "mqtt_user", b.MQTT_USER),
           Get(f, "mqtt_pass", b.MQTT_PASSWORD),
           Get(f, "brightness", g.BRIGHTNESS_LEVEL),
           Get(f, "dht_enabled", g.DHT_ENABLED),
           Get(f, "temp_unit_c", g.TEMP_UNIT_C)>>
    ELSE <<b.MQTT_BROKER, b.MQTT_PORT, b.MQTT_USER, b.MQTT_PASSWORD,
           g.BRIGHTNESS_LEVEL, g.DHT_ENABLED, g.TEMP_UNIT_C>>

\* line 412: the number of names the tuple is unpacked into
DETAILS_TARGETS == 5

\* save_config, lines 207-247: the file after the call and whether the
\* machine was reset; a failed write is caught and logged
save_config(f, rec, saveOut) ==
    IF saveOut = "ok"
    THEN [file |-> MkFile(ConfigKeys, rec), reset |-> TRUE]
    ELSE [file |-> f, reset |-> FALSE]

\* lines 409-455, reached when the unpacking of line 412 succeeds
SubmissionTail(p, f, g, details, final_ssid, final_password, dry_val, wet_val, saveOut) ==
    LET broker     == p.broker
        port       == p.port
        user       == p.user
        mqtt_pass  == p.mqtt_pass
        brightness == p.brightness
        decoded_broker == IF Truthy(broker) THEN Strip(url_decode(broker))
                          ELSE <<>>
        pport      == ParseInt(port, 10)
        final_port == IF Truthy(port) THEN pport.val ELSE details[2]
        final_user == IF Truthy(user) THEN Strip(url_decode(user))
                      ELSE details[3]
        final_mqtt_pass == IF Truthy(mqtt_pass)
                           THEN Strip(url_decode(mqtt_pass)) ELSE details[4]
        final_broker == IF Len(decoded_broker) > 0 THEN decoded_broker
                        ELSE details[1]
        pb         == ParseInt(brightness, 10)
        final_dht_enabled == p.dht_checkbox_val = S_true
        final_temp_unit_c == p.temp_unit_val = S_C
        g2 == [CALIBRATION_DRY |-> dry_val, CALIBRATION_WET |-> wet_val,
               BRIGHTNESS_LEVEL |-> pb.val, DHT_ENABLED |-> final_dht_enabled,
               TEMP_UNIT_C |-> final_temp_unit_c]
        sv == save_config(f,
                  [ssid |-> final_ssid, password |-> final_password,
                   dry |-> dry_val, wet |-> wet_val,
                   mqtt_broker |-> final_broker, mqtt_port |-> final_port,
                   mqtt_user |-> final_user, mqtt_pass |-> final_mqtt_pass,
                   brightness |-> pb.val, dht_enabled |-> final_dht_enabled,
                   temp_unit_c |-> final_temp_unit_c], saveOut)
    IN  IF Truthy(port) /\ ~pport.ok
        THEN [result |-> "raise", file |-> f, g |-> g]
        ELSE IF ~Truthy(brightness) \/ ~pb.ok \/ pb.val < 0 \/ pb.val > 255
        THEN [result |-> "False", file |-> f, g |-> g]
        ELSE [result |-> IF sv.reset THEN "reset" ELSE "True",
              file |-> sv.file, g |-> g2]

\* handle_config_submission with the globals assigned from the submitted
\* calibration before it is validated
handle_config_submission_eager(p, f, b, g, saveOut) ==
    LET pdry == ParseInt(p.dry_val, 10)
        pwet == ParseInt(p.wet_val, 10)
    IN  IF p.submission /\ (~pdry.ok \/ ~pwet.ok)
        THEN [result |-> "False", file |-> f,
              g |-> [g EXCEPT !.CALIBRATION_DRY = pdry.val,
                              !.CALIBRATION_WET = pwet.val]]
        ELSE [result |-> "raise", file |-> f, g |-> g]

\* handle_config_submission, lines 342-456, on a parsed request p.  result
\* is "True" or "False" (the value returned), "raise" (an exception leaves
\* the function) or "reset" (save_config reset the machine and nothing
\* returns).
handle_config_submission(p, f, b, g, saveOut) ==
    LET dry_val == p.dry_val
        wet_val == p.wet_val
        pdry    == ParseInt(dry_val, 10)
        pwet    == ParseInt(wet_val, 10)
        new_ssid     == p.new_ssid
        new_password == p.new_password
        current      == load_current_wifi_config(f)
        final_ssid     == IF Truthy(new_ssid) THEN url_decode(new_ssid)
                          ELSE current[1]
        final_password == IF Truthy(new_password) THEN url_decode(new_password)
                          ELSE current[2]
        details == load_current_config_details(f, b, g)
        no      == [result |-> "False", file |-> f, g |-> g]
    IN  IF ~p.submission THEN no
        ELSE IF ~Truthy(dry_val) \/ ~Truthy(wet_val) THEN no
        ELSE IF ~pdry.ok \/ ~pwet.ok THEN no
        ELSE IF ~Truthy(final_ssid) \/ ~Truthy(final_password) THEN no
        ELSE IF Len(details) # DETAILS_TARGETS
        THEN [result |-> "raise", file |-> f, g |-> g]
        ELSE SubmissionTail(p, f, g, details, final_ssid, final_password,
                            pdry.val, pwet.val, saveOut)

(***************************************************************************)
(* The requests a client sends                                             *)
(***************************************************************************)
RECURSIVE JoinAmp(_)
JoinAmp(ps) ==
    IF ps = <<>> THEN <<>>
    ELSE IF Len(ps) = 1 THEN ps[1]
    ELSE ps[1] \o <<"&">> \o JoinAmp(Tail(ps))

Param(k, v) == k \o <<"=">> \o v

\* the request line; the rest of the request is cut to " H"
RequestLine(method, target) == method \o <<" ">> \o target \o <<" ", "H">>

S_GET == <<"G", "E", "T">>
S_POST == <<"P", "O", "S", "T">>
V_8000 == <<"8", "0", "0", "0">>
V_4000 == <<"4", "0", "0", "0">>
V_5000 == <<"5", "0", "0", "0">>
V_100 == <<"1", "0", "0">>

\* a form submission; a field given as None is left out of the query
Submission(ssid, pass, dry, wet, brightness, extra) ==
    LET fields == << <<K_ssid, ssid>>, <<K_pass, pass>>, <<K_dry, dry>>,
                     <<K_wet, wet>>, <<K_brightness, brightness>>,
                     <<K_temp_unit, S_C>> >>
        present == SelectSeq(fields, LAMBDA kv : kv[2] # None)
        ps == [i \in 1..Len(present) |-> Param(present[i][1], present[i][2])]
    IN  RequestLine(S_GET, <<"/", "?">> \o JoinAmp(ps \o extra))

CredentialInputs ==
    { <<S_MyWifi, S_Secret>>, <<<<>>, <<>>>>, <<S_MyWifi, <<>>>>,
      <<<<"M", "y", "+", "%", "4", "1", "B">>, <<"a", "%", "4", "1">>>> }

CalibrationInputs ==
    { <<V_8000, V_4000>>, <<<<>>, V_4000>>, <<<<"8", "x">>, V_4000>>,
      <<V_8000, None>>, <<V_8000, <<"4", ".", "5">>>>, <<V_5000, V_5000>> }

BrightnessInputs ==
    { V_100, None, <<>>, <<"x">>, <<"2", "5", "6">>, <<"-", "1">>,
      <<"0">>, <<"2", "5", "5">> }

Submissions ==
    {Submission(c[1], c[2], V_8000, V_4000, V_100, <<>>) :
        c \in CredentialInputs}
    \cup {Submission(S_MyWifi, S_Secret, k[1], k[2], V_100, <<>>) :
             k \in CalibrationInputs}
    \cup {Submission(S_MyWifi, S_Secret, V_8000, V_4000, b, <<>>) :
             b \in BrightnessInputs}
    \cup {Submission(<<>>, <<>>, V_8000, V_4000, b, <<>>) :
             b \in {None, <<"2", "5", "6">>}}
    \cup {\* no dry field, yet the text "dry=" occurs in the request
          Submission(S_MyWifi, S_Secret, None, V_4000, V_100,
                     <<Param(<<"x", "d", "r", "y">>, <<"1">>)>>),
          \* a later dry field overrides the first
          Submission(S_MyWifi, S_Secret, V_8000, V_4000, V_100,
                     <<Param(K_dry, <<>>)>>),
          \* the broker fields filled in
          Submission(S_MyWifi, S_Secret, V_8000, V_4000, V_100,
                     <<Param(K_broker, S_host), Param(K_port, <<"x">>)>>)}

PlainRequests ==
    { RequestLine(S_GET, <<"/">>),
      RequestLine(S_GET, <<"/", "c", "o", "n", "f", "i", "g">>),
      RequestLine(S_GET, <<"/", "a">>),
      RequestLine(S_POST, <<"/">>),
      RequestLine(S_GET, <<"/", "?", "a", "=", "1">>),
      RequestLine(S_POST, <<"/", "?">> \o Param(K_dry, V_8000)),
      RequestLine(S_GET, <<"/", "c", "o", "n", "f", "i", "g", "?">>
                            \o Param(K_dry, V_8000)) }

Requests == PlainRequests \cup Submissions

ParsedRequests == {ParseRequest(r) : r \in Requests}

(***************************************************************************)
(* Pages                                                                   *)
(***************************************************************************)
MSG_SAVED == "Configuration Saved. Device Resetting..."
MSG_ERROR == "Error: Invalid input. Check calibration values."

\* create_config_page with the two password inputs pre-filled like the
\* other fields
create_config_page_prefilled(message, f, b, g) ==
    LET w  == load_current_wifi_config(f)
        dt == load_current_config_details(f, b, g)
    IN  [kind |-> "config", message |-> message,
         page |-> [current_ssid |-> IF Truthy(w[1]) THEN w[1]
                                    ELSE <<"N", "/", "A">>,
                   pass |-> w[2],
                   dry |-> g.CALIBRATION_DRY, wet |-> g.CALIBRATION_WET,
                   broker |-> dt[1], port |-> dt[2], user |-> dt[3],
                   mqtt_pass |-> dt[4],
                   brightness |-> dt[5], dht_checked |-> dt[6],
                   c_checked |-> dt[7]]]

\* create_config_page, lines 458-539: the values the page shows
create_config_page(message, f, b, g) ==
    LET w  == load_current_wifi_config(f)
        dt == load_current_config_details(f, b, g)
    IN  [kind |-> "config", message |-> message,
         page |-> [current_ssid |-> IF Truthy(w[1]) THEN w[1]
                                    ELSE <<"N", "/", "A">>,
                   dry |-> g.CALIBRATION_DRY, wet |-> g.CALIBRATION_WET,
                   broker |-> dt[1], port |-> dt[2], user |-> dt[3],
                   brightness |-> dt[5], dht_checked |-> dt[6],
                   c_checked |-> dt[7]]]

\* create_data_page, lines 543-615
create_data_page(g, raw, percent, temp, hum) ==
    [kind |-> "data", message |-> "",
     page |-> [raw |-> raw, percent |-> percent,
               dry |-> g.CALIBRATION_DRY, wet |-> g.CALIBRATION_WET,
               env_shown |-> g.DHT_ENABLED,
               temp |-> IF g.DHT_ENABLED THEN temp ELSE 0,
               hum |-> IF g.DHT_ENABLED THEN hum ELSE 0,
               unit_c |-> g.TEMP_UNIT_C]]

Globals ==
    [CALIBRATION_DRY |-> CALIBRATION_DRY, CALIBRATION_WET |-> CALIBRATION_WET,
     BRIGHTNESS_LEVEL |-> BRIGHTNESS_LEVEL, DHT_ENABLED |-> DHT_ENABLED,
     TEMP_UNIT_C |-> TEMP_UNIT_C]

(***************************************************************************)
(* run_project                                                             *)
(***************************************************************************)
MaxSince == READING_DELAY_MS + ACCEPT_TIMEOUT_MS * MaxLateTimeouts

\* line 651 with the mode test lost
Due_any_mode == since > READING_DELAY_MS

\* line 651: a reading is due
Due == ~is_config_mode /\ since > READING_DELAY_MS

\* lines 619-647: the mode, the eager mqtt_connect() whose return value is
\* dropped, and the listening socket
RunProjectStart ==
    /\ pc = "run_project"
    /\ is_config_mode' = ap_active
    /\ \E connOut \in ConnectOutcomes, bound \in BOOLEAN :
         LET c == mqtt_connect(mqtt_client, brokerConn, boot.MQTT_BROKER,
                               connOut)
         IN  /\ ~Truthy(boot.MQTT_BROKER) => connOut = "ok"
             /\ IF ap_active
                THEN UNCHANGED <<mqtt_client, brokerConn, history>>
                ELSE /\ mqtt_client' = c.global
                     /\ brokerConn' = c.conn
                     /\ history' =
                          [history EXCEPT
                             !.clientConstructed = @ \/ c.constructed,
                             !.connectAttempted = @ \/ c.attempted]
             /\ pc' = IF bound THEN "loop" ELSE "aborted"
    /\ since' = 0
    /\ UNCHANGED <<file, bootVars, configVars, periphVars, readingVars,
                   inbox, tickLog, cycle, httpVars, restartCause>>

\* lines 651-653: the first read_moisture() of a tick, outside the try
SampleFirstRead ==
    /\ pc = "loop"
    /\ Due
    /\ \E sum \in SampleSums :
         LET r == read_moisture(adc, CALIBRATION_DRY, CALIBRATION_WET, sum)
         IN  IF r.raised
             THEN /\ pc' = "crashed"
                  /\ tickLog' = <<"sample">>
                  /\ UNCHANGED readingVars
             ELSE /\ pc' = "tick"
                  /\ current_raw_reading' = r.raw
                  /\ current_moisture_percent' = r.percent
                  /\ np_color' = IF r.sampled
                                 THEN set_neopixel_color(np_color, np,
                                          r.percent, BRIGHTNESS_LEVEL)
                                 ELSE np_color
                  /\ tickLog' = IF r.sampled THEN <<"sample", "indicator">>
                                ELSE <<"neutral">>
                  /\ UNCHANGED <<current_temp_c, current_humidity>>
    /\ cycle' = NoCycle
    /\ UNCHANGED <<file, bootVars, configVars, periphVars, mqttVars,
                   is_config_mode, inbox, since, httpVars, restartCause,
                   history>>

\* lines 654-678: the try block of a tick and the reset of the timer
SampleTickBody ==
    /\ pc = "tick"
    /\ \E sum \in SampleSums, dhtOut \in DhtOutcomes,
          connOut \in ConnectOutcomes, pollOut \in IOOutcomes,
          pubOut \in IOOutcomes :
         LET r  == read_moisture(adc, CALIBRATION_DRY, CALIBRATION_WET, sum)
             e  == read_dht(DHT_ENABLED, d, dhtOut)
             payload ==
                 [raw |-> r.raw, moisture_percent |-> r.percent,
                  has_env |-> DHT_ENABLED,
                  temperature_c |-> IF DHT_ENABLED THEN e.t ELSE 0,
                  humidity_percent |-> IF DHT_ENABLED THEN e.h ELSE 0]
             m  == mqtt_publish(mqtt_client, brokerConn, boot.MQTT_BROKER,
                                inbox, payload, NoPayload, connOut, pollOut,
                                pubOut)
             publishing == ~r.raised /\ mqtt_client # "None"
             connAtPoll == IF mqtt_client = "None"
                           THEN mqtt_connect(mqtt_client, brokerConn,
                                    boot.MQTT_BROKER, connOut).conn
                           ELSE brokerConn
         IN  \* outcomes that cannot matter are fixed, and I/O on a
             \* connection that is not open cannot succeed
             /\ (~publishing \/ mqtt_client # "None") => connOut = "ok"
             /\ (~publishing \/ ~m.polled) => pollOut = "ok"
             /\ (publishing /\ m.polled /\ connAtPoll # "open")
                    => pollOut # "ok"
             /\ (~publishing \/ ~m.publishTried) => pubOut = "ok"
             /\ (~DHT_ENABLED \/ ~d \/ r.raised) => dhtOut.ok
             /\ IF r.raised
                THEN UNCHANGED readingVars
                ELSE /\ current_raw_reading' = r.raw
                     /\ current_moisture_percent' = r.percent
                     /\ np_color' = IF r.sampled
                                    THEN set_neopixel_color(np_color, np,
                                             r.percent, BRIGHTNESS_LEVEL)
                                    ELSE np_color
                     /\ current_temp_c' = e.t
                     /\ current_humidity' = e.h
             /\ tickLog' = tickLog
                    \o (IF r.sampled THEN <<"sample">> ELSE <<"neutral">>)
                    \o (IF r.sampled /\ ~r.raised THEN <<"indicator">>
                        ELSE <<>>)
                    \o (IF r.raised THEN <<>> ELSE <<"dht">>)
                    \o (IF publishing /\ m.connectTried THEN <<"connect">>
                        ELSE <<>>)
                    \o (IF publishing /\ m.polled THEN <<"poll">> ELSE <<>>)
                    \o (IF publishing /\ m.publishTried THEN <<"publish">>
                        ELSE <<>>)
             /\ cycle' = [ran |-> TRUE,
                          polled |-> publishing /\ m.polled,
                          connectTried |-> publishing /\ m.connectTried,
                          publishTried |-> publishing /\ m.publishTried,
                          delivered |-> IF publishing THEN m.delivered
                                        ELSE NoMsg,
                          pendingAtStart |-> inbox,
                          clientAtStart |-> mqtt_client,
                          published |-> IF publishing THEN m.published
                                        ELSE NoPayload]
             /\ IF publishing
                THEN /\ mqtt_client' = m.client
                     /\ brokerConn' = m.conn
                     /\ inbox' = m.inbox
                     /\ history' =
                          [history EXCEPT
                             !.clientConstructed = @ \/ m.constructed,
                             !.connectAttempted = @ \/ m.connectTried,
                             !.dropped = @ \/ m.dropped]
                     /\ IF m.reset
                        THEN /\ pc' = "restarted"
                             /\ restartCause' = "mqtt_reboot"
                             /\ UNCHANGED since
                        ELSE /\ pc' = "accept"
                             /\ since' = 0
                             /\ UNCHANGED restartCause
                ELSE /\ pc' = "accept"
                     /\ since' = 0
                     /\ UNCHANGED <<mqttVars, inbox, history, restartCause>>
    /\ UNCHANGED <<file, bootVars, configVars, periphVars, is_config_mode,
                   httpVars>>

\* the environment: a controller publishes to the broker while the device
\* runs as a station with a broker configured; the broker holds the message
\* for the device's subscription
CommandMessages ==
    { [topic |-> TOPIC_SUB_COMMAND, msg |-> "reboot"],
      [topic |-> TOPIC_SUB_COMMAND, msg |-> "Reboot"],
      [topic |-> TOPIC_PUB, msg |-> "reboot"] }

BrokerSend ==
    /\ pc \in {"loop", "accept"}
    /\ ~is_config_mode
    /\ Truthy(boot.MQTT_BROKER)
    /\ inbox = NoMsg
    /\ inbox' \in CommandMessages
    /\ UNCHANGED <<pc, file, bootVars, configVars, periphVars, readingVars,
                   mqttVars, is_config_mode, since, tickLog, cycle, httpVars,
                   restartCause, history>>

\* the dispatcher is at s.accept(): after a tick, or at once when no
\* reading is due
AtAccept == pc = "accept" \/ (pc = "loop" /\ ~Due)

\* AcceptTimeout with a retry of the station connection added: an idle
\* access point is shut down and the station interface brought up again
AcceptTimeout_retry_station ==
    /\ AtAccept
    /\ since' = Min(since + ACCEPT_TIMEOUT_MS, MaxSince)
    /\ pc' = "loop"
    /\ tickLog' = <<>>
    /\ cycle' = NoCycle
    /\ ap_active' = FALSE
    /\ sta_active' = TRUE
    /\ UNCHANGED <<file, boot, sta_connected, led, timeout, connect_calls,
                   configVars, periphVars, readingVars, mqttVars,
                   is_config_mode, inbox, httpVars, restartCause, history>>

\* lines 682 and 711-718: accept() times out
AcceptTimeout ==
    /\ AtAccept
    /\ since' = Min(since + ACCEPT_TIMEOUT_MS, MaxSince)
    /\ pc' = "loop"
    /\ tickLog' = <<>>
    /\ cycle' = NoCycle
    /\ UNCHANGED <<file, bootVars, configVars, periphVars, readingVars,
                   mqttVars, is_config_mode, inbox, httpVars, restartCause,
                   history>>

\* what the network does to one accepted connection: nothing, recv() raises
\* an OSError, send() raises an OSError
NetOutcomes == {"ok", "recv_fail", "send_fail"}
SaveOutcomes == {"ok", "write_fail"}

\* lines 685-708: the page the routing selects for a request; h is the
\* outcome of handle_config_submission when the request is a submission
Route(p, h, apActive, f, b, g, raw, percent, temp, hum) ==
    IF p.submission
    THEN IF h.result = "True"
         THEN create_config_page(MSG_SAVED, h.file, b, h.g)
         ELSE IF h.result = "False"
         THEN create_config_page(MSG_ERROR, h.file, b, h.g)
         ELSE NoResponse
    ELSE IF p.config_path \/ apActive
    THEN create_config_page("", f, b, g)
    ELSE create_data_page(g, raw, percent, temp, hum)

\* what `'conn' in locals()` gives inside run_project (lines 729 and 735):
\* TRUE where locals() holds the function's local names, FALSE where it
\* holds the module's globals, as it does under MicroPython; no global is
\* named conn
LocalsOutcomes == BOOLEAN

\* lines 690-739: whether the accepted connection is still open when the
\* try statement is left.  Every branch that sends its page closes the
\* connection itself (lines 693, 697, 703, 708); when recv(), send() or the
\* routing raises, only the handlers of lines 729-730 and 735-737 can.
ConnLeftOpen(net, result, localsHasConn) ==
    IF result = "reset" THEN TRUE
    ELSE IF net = "ok" /\ result # "raise" THEN FALSE
    ELSE ~localsHasConn

\* lines 681-739: one accepted connection, from recv() to the close in the
\* finally clause
HandleRequest ==
    /\ AtAccept
    /\ \E p \in ParsedRequests, net \in NetOutcomes,
          saveOut \in SaveOutcomes, localsHasConn \in LocalsOutcomes :
         LET h == IF net # "recv_fail" /\ p.submission
                  THEN handle_config_submission(p, file, boot, Globals,
                                                saveOut)
                  ELSE [result |-> "none", file |-> file, g |-> Globals]
             page == Route(p, h, ap_active, file, boot, Globals,
                           current_raw_reading, current_moisture_percent,
                           current_temp_c, current_humidity)
         IN  /\ h.result \notin {"True", "reset"} => saveOut = "ok"
             /\ h.result \in {"raise", "reset"} => net = "ok"
             /\ (net = "ok" /\ h.result # "raise") => localsHasConn
             /\ conn_open' = ConnLeftOpen(net, h.result, localsHasConn)
             /\ request' = IF net = "recv_fail" THEN NoRequest ELSE p
             /\ handled' = h.result
             /\ file' = h.file
             /\ CALIBRATION_DRY' = h.g.CALIBRATION_DRY
             /\ CALIBRATION_WET' = h.g.CALIBRATION_WET
             /\ BRIGHTNESS_LEVEL' = h.g.BRIGHTNESS_LEVEL
             /\ DHT_ENABLED' = h.g.DHT_ENABLED
             /\ TEMP_UNIT_C' = h.g.TEMP_UNIT_C
             /\ response' = IF net = "ok" THEN page
                            ELSE [NoResponse EXCEPT !.kind = net]
             /\ history' = [history EXCEPT !.saved = @ \/ h.result = "reset"]
             /\ IF h.result = "reset"
                THEN /\ pc' = "restarted"
                     /\ restartCause' = "config_saved"
                ELSE /\ pc' = "served"
                     /\ UNCHANGED restartCause
    /\ tickLog' = <<>>
    /\ cycle' = NoCycle
    /\ UNCHANGED <<bootVars, periphVars, readingVars, mqttVars,
                   is_config_mode, inbox, since>>

\* back to the top of the while loop
LoopBack ==
    /\ pc = "served"
    /\ pc' = "loop"
    /\ request' = NoRequest
    /\ handled' = "none"
    /\ response' = NoResponse
    /\ UNCHANGED <<file, bootVars, configVars, periphVars, readingVars,
                   mqttVars, is_config_mode, inbox, since, tickLog, cycle,
                   conn_open, restartCause, history>>

Next ==
    \/ BootLoadConfig
    \/ BootStartConnect
    \/ WifiPoll
    \/ WifiConnected
    \/ WifiFailed
    \/ BootStartPortal
    \/ MainInit
    \/ RunProjectStart
    \/ SampleFirstRead
    \/ SampleTickBody
    \/ BrokerSend
    \/ AcceptTimeout
    \/ HandleRequest
    \/ LoopBack

Spec == Init /\ [][Next]_vars

(***************************************************************************)
(* Properties                                                              *)
(***************************************************************************)
\* the validation rules of a submission
CalibrationValid(p) ==
    /\ Truthy(p.dry_val) /\ ParseInt(p.dry_val, 10).ok
    /\ Truthy(p.wet_val) /\ ParseInt(p.wet_val, 10).ok

BrightnessValid(p) ==
    /\ Truthy(p.brightness)
    /\ ParseInt(p.brightness, 10).ok
    /\ ParseInt(p.brightness, 10).val \in 0..255

PortValid(p) == ~Truthy(p.port) \/ ParseInt(p.port, 10).ok

StoredSsid(f) == load_current_wifi_config(f)[1]
StoredPassword(f) == load_current_wifi_config(f)[2]

CredentialsValid(p, f) ==
    /\ Truthy(p.new_ssid) \/ Truthy(StoredSsid(f))
    /\ Truthy(p.new_password) \/ Truthy(StoredPassword(f))

PassesValidation(p, f) ==
    /\ p.submission
    /\ CalibrationValid(p)
    /\ CredentialsValid(p, f)
    /\ BrightnessValid(p)
    /\ PortValid(p)

\* a request has just been read and handled
JustHandled == pc \in {"served", "restarted"} /\ request.req # <<>>

\* the in-memory configuration is what module initialisation left
ConfigUnchanged ==
    /\ CALIBRATION_DRY = boot.CALIBRATION_DRY
    /\ CALIBRATION_WET = boot.CALIBRATION_WET
    /\ BRIGHTNESS_LEVEL = boot.BRIGHTNESS_LEVEL
    /\ DHT_ENABLED = MAIN_DHT_ENABLED
    /\ TEMP_UNIT_C = MAIN_TEMP_UNIT_C

\* C1: a submission that passes validation (and whose write does not fail)
\* ends with the merged record in the config file and a restart caused by
\* the save; this covers GET /?ssid=MyWifi&pass=Secret&dry=8000&wet=4000&
\* brightness=100&temp_unit=C on a device with no stored config.
C1_ValidSubmissionSavedThenRestart ==
    (JustHandled /\ PassesValidation(request, history.file0)
       /\ handled # "True")
    => /\ pc = "restarted"
       /\ restartCause = "config_saved"
       /\ file.ok /\ file.keys = ConfigKeys
       /\ file.v.ssid = (IF Truthy(request.new_ssid)
                         THEN url_decode(request.new_ssid)
                         ELSE StoredSsid(history.file0))
       /\ file.v.password = (IF Truthy(request.new_password)
                             THEN url_decode(request.new_password)
                             ELSE StoredPassword(history.file0))
       /\ file.v.dry = ParseInt(request.dry_val, 10).val
       /\ file.v.wet = ParseInt(request.wet_val, 10).val
       /\ file.v.brightness = ParseInt(request.brightness, 10).val
       /\ file.v.temp_unit_c = (request.temp_unit_val = S_C)

\* C2: with non-blank stored credentials, a submission with valid
\* calibration and brightness and blank ssid= and pass= leaves a stored
\* record with the old credentials and the submitted calibration and
\* brightness.
C2_BlankCredentialsKeepStored ==
    (JustHandled /\ request.submission
       /\ ~Truthy(request.new_ssid) /\ ~Truthy(request.new_password)
       /\ CalibrationValid(request) /\ BrightnessValid(request)
       /\ PortValid(request)
       /\ Truthy(StoredSsid(history.file0))
       /\ Truthy(StoredPassword(history.file0))
       /\ handled # "True")
    => /\ file.ok
       /\ file.v.ssid = StoredSsid(history.file0)
       /\ file.v.password = StoredPassword(history.file0)
       /\ file.v.dry = ParseInt(request.dry_val, 10).val
       /\ file.v.wet = ParseInt(request.wet_val, 10).val
       /\ file.v.brightness = ParseInt(request.brightness, 10).val

\* C3: a submission with valid calibration that fails on brightness or on
\* credentials blank in both the submission and the stored record is
\* answered with the form and the error message; the file and the in-memory
\* configuration do not change and there is no restart.
C3_RejectionShowsFormAndChangesNothing ==
    (JustHandled /\ request.submission /\ CalibrationValid(request)
       /\ (~BrightnessValid(request)
           \/ ~CredentialsValid(request, history.file0))
       /\ response.kind # "send_fail")
    => /\ pc = "served"
       /\ response.kind = "config" /\ response.message = MSG_ERROR
       /\ file = history.file0
       /\ ConfigUnchanged
       /\ restartCause = "none"

C5_AccessPointAlwaysServesForm ==
    (JustHandled /\ ap_active /\ response.kind # "send_fail")
    => response.kind = "config"

\* C6: a publish that fails on a broker disconnect drops the handle without
\* reconnecting in that cycle, and the next sampling cycle, which starts
\* with the handle absent, attempts a new connection.
C6_ReconnectInNextCycle ==
    /\ (cycle.ran /\ cycle.clientAtStart = "client" /\ mqtt_client = "None")
           => ~cycle.connectTried
    /\ (cycle.ran /\ history.dropped /\ cycle.clientAtStart = "None"
          /\ Truthy(boot.MQTT_BROKER))
           => cycle.connectTried

\* C7: with an empty broker address no client is ever constructed, no
\* connection is ever attempted, and the publish step of every sampling
\* cycle does nothing.
C7_EmptyBrokerNeverConnects ==
    (pc # "boot_load" /\ ~Truthy(boot.MQTT_BROKER))
    => /\ ~history.clientConstructed
       /\ ~history.connectAttempted
       /\ mqtt_client = "None"
       /\ brokerConn = "closed"
       /\ cycle.ran => /\ ~cycle.polled
                       /\ ~cycle.publishTried
                       /\ ~cycle.connectTried
                       /\ cycle.published = NoPayload

\* a sampling cycle ran in Station mode with an empty broker address
C7_Witness ==
    /\ cycle.ran
    /\ ~is_config_mode
    /\ ~Truthy(boot.MQTT_BROKER)
    /\ tickLog # <<>>

\* C8: every sampling cycle in Station mode with a broker configured polls
\* the subscription, the poll comes before the publish, and the device
\* restarts exactly when the polled message is "reboot" on the command
\* topic.
C8_EveryCyclePollsBeforePublish ==
    /\ (cycle.ran /\ Truthy(boot.MQTT_BROKER)) => cycle.polled
    /\ cycle.publishTried =>
          \E i, j \in 1..Len(tickLog) :
              i < j /\ tickLog[i] = "poll" /\ tickLog[j] = "publish"
    /\ restartCause = "mqtt_reboot" <=>
          (cycle.delivered.topic = TOPIC_SUB_COMMAND
             /\ cycle.delivered.msg = "reboot")

\* C9 as stated: every restart follows a submission that passed validation
\* and was persisted.
C9_RestartOnlyBySubmission ==
    pc = "restarted"
    => /\ restartCause = "config_saved"
       /\ handled = "reset"
       /\ history.saved

\* C9 amended: a restart happens only through a validated, persisted
\* submission or through the message "reboot" received on the command
\* topic.
C9_RestartOnlyBySubmissionOrRebootCommand ==
    /\ pc = "restarted" <=> restartCause # "none"
    /\ pc = "restarted" =>
          \/ /\ restartCause = "config_saved"
             /\ handled = "reset"
             /\ history.saved
             /\ PassesValidation(request, history.file0)
             /\ file.ok
          \/ /\ restartCause = "mqtt_reboot"
             /\ cycle.polled
             /\ cycle.delivered =
                    [topic |-> TOPIC_SUB_COMMAND, msg |-> "reboot"]

\* the device restarted on a reboot command
C9_Witness ==
    /\ pc = "restarted"
    /\ restartCause = "mqtt_reboot"
    /\ cycle.delivered.msg = "reboot"

\* C10: with equal calibration bounds a sampling tick does not end the
\* dispatcher loop.
C10_EqualBoundsNeverCrash ==
    CALIBRATION_DRY = CALIBRATION_WET => pc # "crashed"

(***************************************************************************)
(* The conversion of read_moisture over ranges of calibration bounds and   *)
(* raw values: the device stands at a due sampling tick with the ADC       *)
(* present, and one call of read_moisture runs.                            *)
(***************************************************************************)
CalValues == -1..MaxCal

\* sums of NUM_SAMPLES reads whose integer average runs over 0..MaxRaw
ConversionSums ==
    {r * NUM_SAMPLES + k : r \in 0..MaxRaw, k \in {0, NUM_SAMPLES - 1}}

ConversionInit ==
    /\ pc = "convert"
    /\ file = NoFile
    /\ boot = BootDefaults
    /\ sta_connected = TRUE
    /\ sta_active = TRUE
    /\ ap_active = FALSE
    /\ led = "on"
    /\ timeout = 0
    /\ connect_calls = 0
    /\ CALIBRATION_DRY \in CalValues
    /\ CALIBRATION_WET \in CalValues
    /\ BRIGHTNESS_LEVEL = DEFAULT_BRIGHTNESS
    /\ DHT_ENABLED = MAIN_DHT_ENABLED
    /\ TEMP_UNIT_C = MAIN_TEMP_UNIT_C
    /\ np = TRUE /\ adc = TRUE /\ d = FALSE
    /\ current_raw_reading = 0
    /\ current_moisture_percent = 0
    /\ current_temp_c = 0
    /\ current_humidity = 0
    /\ np_color = <<0, 0, 0>>
    /\ mqtt_client = "None"
    /\ is_config_mode = FALSE
    /\ brokerConn = "closed"
    /\ inbox = NoMsg
    /\ since = MaxSince
    /\ tickLog = <<>>
    /\ cycle = NoCycle
    /\ request = NoRequest
    /\ handled = "none"
    /\ response = NoResponse
    /\ conn_open = FALSE
    /\ restartCause = "none"
    /\ history = NoHistory

\* one call of read_moisture, lines 101-127
ConvertReading ==
    /\ pc = "convert"
    /\ \E sum \in ConversionSums :
         LET r == read_moisture(adc, CALIBRATION_DRY, CALIBRATION_WET, sum)
         IN  IF r.raised
             THEN /\ pc' = "crashed"
                  /\ UNCHANGED readingVars
             ELSE /\ pc' = "converted"
                  /\ current_raw_reading' = r.raw
                  /\ current_moisture_percent' = r.percent
                  /\ np_color' = set_neopixel_color(np_color, np, r.percent,
                                                    BRIGHTNESS_LEVEL)
                  /\ UNCHANGED <<current_temp_c, current_humidity>>
    /\ tickLog' = <<"sample">>
    /\ UNCHANGED <<file, bootVars, configVars, periphVars, mqttVars,
                   is_config_mode, inbox, since, cycle, httpVars,
                   restartCause, history>>

ConversionNext == ConvertReading

ConversionSpec == ConversionInit /\ [][ConversionNext]_vars

\* C11: with dry > wet the percent computed from any averaged raw value lies
\* in [0.0, 100.0]; raw at or above dry gives 0.0 and raw at or below wet
\* gives 100.0 (clamping); and no larger raw value gives a larger percent.
C11_PercentBoundedAndMonotone ==
    (pc = "converted" /\ CALIBRATION_DRY > CALIBRATION_WET)
    => /\ current_moisture_percent \in 0..1000
       /\ current_raw_reading >= CALIBRATION_DRY
             => current_moisture_percent = 0
       /\ current_raw_reading <= CALIBRATION_WET
             => current_moisture_percent = 1000
       /\ \A sum \in ConversionSums :
             LET o == read_moisture(adc, CALIBRATION_DRY, CALIBRATION_WET,
                                    sum)
             IN  o.raw >= current_raw_reading
                    => o.percent <= current_moisture_percent

\* a raw value strictly between the bounds was converted to a percent
\* strictly between 0.0 and 100.0, with values outside the bounds on both
\* sides in range
C11_Witness ==
    /\ pc = "converted"
    /\ CALIBRATION_WET > 0
    /\ CALIBRATION_DRY < MaxRaw
    /\ CALIBRATION_WET < current_raw_reading
    /\ current_raw_reading < CALIBRATION_DRY
    /\ current_moisture_percent \in 1..999

\* the reading of the concrete scenario: calibration 8191/4300 and an
\* averaged raw value of 6245 taken with the ADC present
ScenarioReading ==
    /\ adc
    /\ CALIBRATION_DRY = DEFAULT_DRY
    /\ CALIBRATION_WET = DEFAULT_WET
    /\ current_raw_reading = 6245

\* C12 as stated: with dry = 8191 and wet = 4300 an averaged raw value of
\* 6245 gives a percent of about 50.8 (within a tenth of it).
C12_Raw6245GivesAbout50_8 ==
    ScenarioReading => current_moisture_percent \in 507..509

\* C12 amended: with dry = 8191 and wet = 4300 an averaged raw value of
\* 6245 gives a percent of 50.0.
C12_Raw6245Gives50_0 ==
    ScenarioReading => current_moisture_percent = 500

\* a sampling tick has stored the reading of the scenario
C12_Witness ==
    /\ ScenarioReading
    /\ pc \in {"tick", "accept"}
    /\ current_moisture_percent = 500

\* C13: the process stops without a restart only when the listening socket
\* could not be bound, before the dispatcher loop has run; once the loop
\* runs no error of a sampling tick or of a request ends it.
C13_OnlyBindFailureAborts ==
    pc \in {"aborted", "crashed"}
    => /\ pc = "aborted"
       /\ tickLog = <<>>
       /\ cycle = NoCycle
       /\ request = NoRequest

\* positions of boot.py, where the mode is being decided
BootPositions == {"boot_load", "boot_decide", "wifi_wait"}

\* positions of the dispatcher loop of run_project
LoopPositions == {"loop", "tick", "accept", "served"}

\* C14: the mode is decided in boot.py and does not change afterwards: no
\* step after boot changes which interface is active, an access point once
\* started is never stopped, and run_project's mode flag, read once, keeps
\* agreeing with the interface for as long as the loop runs.
C14_ModeDecidedOnce ==
    [][ /\ pc \notin BootPositions
           => /\ ap_active' = ap_active
              /\ sta_active' = sta_active
        /\ ap_active => ap_active'
        /\ pc \in LoopPositions
           => /\ is_config_mode = ap_active
              /\ is_config_mode' = is_config_mode ]_vars

\* a request was served in AccessPoint mode after the one connection
\* attempt had failed, and the device is still in AccessPoint mode
C14_Witness ==
    /\ pc = "served"
    /\ connect_calls = 1
    /\ ap_active /\ is_config_mode
    /\ ~sta_active

(***************************************************************************)
(* boot.py on its own, started on a stored record with any subset of the   *)
(* keys present                                                            *)
(***************************************************************************)
\* a record whose every value differs from the compiled-in default
StoredRecord ==
    [ssid |-> S_Old, password |-> S_Pwd, dry |-> 8000, wet |-> 4000,
     mqtt_broker |-> S_host, mqtt_port |-> 8883, mqtt_user |-> <<"u">>,
     mqtt_pass |-> <<"p">>, brightness |-> 200, dht_enabled |-> TRUE,
     temp_unit_c |-> FALSE]

BootFiles ==
    {MkFile(keys, StoredRecord) : keys \in SUBSET ConfigKeys}
    \cup InitialFiles

BootInit ==
    /\ pc = "boot_load"
    /\ file \in BootFiles
    /\ boot = BootDefaults
    /\ sta_connected \in BOOLEAN
    /\ sta_active = sta_connected
    /\ ap_active = FALSE
    /\ led = "off"
    /\ timeout = 0
    /\ connect_calls = 0
    /\ CALIBRATION_DRY = DEFAULT_DRY
    /\ CALIBRATION_WET = DEFAULT_WET
    /\ BRIGHTNESS_LEVEL = DEFAULT_BRIGHTNESS
    /\ DHT_ENABLED = FALSE
    /\ TEMP_UNIT_C = TRUE
    /\ np = FALSE /\ adc = FALSE /\ d = FALSE
    /\ current_raw_reading = 0
    /\ current_moisture_percent = 0
    /\ current_temp_c = 0
    /\ current_humidity = 0
    /\ np_color = <<0, 0, 0>>
    /\ mqtt_client = "None"
    /\ is_config_mode = FALSE
    /\ brokerConn = "closed"
    /\ inbox = NoMsg
    /\ since = 0
    /\ tickLog = <<>>
    /\ cycle = NoCycle
    /\ request = NoRequest
    /\ handled = "none"
    /\ response = NoResponse
    /\ conn_open = FALSE
    /\ restartCause = "none"
    /\ history = [NoHistory EXCEPT !.file0 = file]

BootNext ==
    \/ BootLoadConfig
    \/ BootStartConnect
    \/ WifiPoll
    \/ WifiConnected
    \/ WifiFailed
    \/ BootStartPortal

BootSpec == BootInit /\ [][BootNext]_vars

\* both credentials were loaded and are non-empty (line 141)
HasCredentials == Truthy(boot.wifi_ssid) /\ Truthy(boot.wifi_password)

\* C15 as stated: provisioning that finds both credentials ends after
\* exactly one connection attempt.
C15_ExactlyOneAttempt ==
    (pc = "main_init" /\ HasCredentials) => connect_calls = 1

\* C15 amended: without both credentials provisioning ends in AccessPoint
\* with no connection attempt; with them it makes at most one attempt (none
\* when the station interface is already connected) and waits through at
\* most WIFI_TIMEOUT polls; it ends in Station when connected, and
\* otherwise, after the last poll, with the station interface deactivated
\* and the access point started.
C15_AtMostOneAttempt ==
    /\ connect_calls <= 1
    /\ timeout \in 0..WIFI_TIMEOUT
    /\ pc = "wifi_wait"
          => /\ HasCredentials /\ connect_calls = 1
             /\ sta_active /\ ~ap_active
    /\ pc = "main_init"
          => /\ ~HasCredentials => (ap_active /\ connect_calls = 0)
             /\ HasCredentials
                  => \/ /\ ~ap_active
                        /\ sta_connected /\ sta_active
                        /\ led = "on"
                     \/ /\ ap_active
                        /\ ~sta_connected /\ ~sta_active
                        /\ led = "off"
                        /\ connect_calls = 1
                        /\ timeout = 0

\* the one connection attempt failed and the access point was started
C15_Witness ==
    /\ pc = "main_init"
    /\ HasCredentials
    /\ connect_calls = 1
    /\ timeout = 0
    /\ ap_active /\ ~sta_active

\* the global of boot.py that each key of the record is loaded into
FieldOf ==
    [ssid |-> "wifi_ssid", password |-> "wifi_password",
     dry |-> "CALIBRATION_DRY", wet |-> "CALIBRATION_WET",
     mqtt_broker |-> "MQTT_BROKER", mqtt_port |-> "MQTT_PORT",
     mqtt_user |-> "MQTT_USER", mqtt_pass |-> "MQTT_PASSWORD",
     brightness |-> "BRIGHTNESS_LEVEL", dht_enabled |-> "DHT_ENABLED",
     temp_unit_c |-> "TEMP_UNIT_C"]

\* C18: once the load has run, every field holds the stored value when the
\* record parses and has the key, and its default otherwise, independently
\* of the other keys; a missing or unparsable file gives all defaults; and
\* boot goes on in every case.
C18_LoadDefaultsEachField ==
    pc # "boot_load"
    => /\ \A k \in ConfigKeys :
             boot[FieldOf[k]] = IF file.ok /\ k \in file.keys
                                THEN file.v[k]
                                ELSE BootDefaults[FieldOf[k]]
       /\ pc \in {"boot_decide", "wifi_wait", "main_init"}

\* a record holding dry but not wet was loaded: dry is the stored value,
\* wet the default
C18_Witness ==
    /\ pc = "boot_decide"
    /\ file.ok
    /\ "dry" \in file.keys /\ "wet" \notin file.keys
    /\ boot.CALIBRATION_DRY = 8000
    /\ boot.CALIBRATION_WET = DEFAULT_WET

\* C16: a submission that passes validation is answered, with the page
\* announcing the save, and the restart comes after that answer: when such
\* a submission has been handled the response has been sent and the device
\* has restarted.
C16_ResponseSentThenRestart ==
    (JustHandled /\ PassesValidation(request, history.file0)
       /\ response.kind # "send_fail")
    => /\ response.kind = "config"
       /\ response.message = MSG_SAVED
       /\ pc = "restarted"
       /\ restartCause = "config_saved"

\* the persisted record has the environmental sensor enabled
StoredDhtEnabled ==
    /\ history.file0.ok
    /\ "dht_enabled" \in history.file0.keys
    /\ history.file0.v.dht_enabled

\* C19: with the sensor enabled in the persisted record every sampling tick
\* runs with the sensor flag on, so that read_dht reads the sensor, and
\* every published payload carries temperature and humidity; with it
\* disabled no payload carries them.
C19_EnvSensorFollowsStoredFlag ==
    /\ (cycle.ran /\ StoredDhtEnabled) => DHT_ENABLED
    /\ cycle.published # NoPayload
          => cycle.published.has_env = StoredDhtEnabled

\* values a stored password can have
SecretValues == {<<>>, S_Pwd, S_Secret, <<"p">>}

\* the record f with its Wi-Fi password and its broker password replaced,
\* where it holds them
WithPasswords(f, wifi_pass, broker_pass) ==
    [f EXCEPT !.v.password = IF "password" \in f.keys THEN wifi_pass ELSE @,
              !.v.mqtt_pass = IF "mqtt_pass" \in f.keys THEN broker_pass
                              ELSE @]

\* C20: the configuration page that was sent is the page that would have
\* been generated, in the same state, from any stored record that differs
\* from the present one only in the Wi-Fi password and the broker password
\* (and after a boot from that record).
C20_FormHidesPasswords ==
    response.kind = "config"
    => \A wifi_pass, broker_pass \in SecretValues :
          LET other == WithPasswords(file, wifi_pass, broker_pass)
          IN  create_config_page(response.message, other, LoadConfig(other),
                                 Globals) = response

\* a configuration page was sent from a stored record that holds a
\* non-empty Wi-Fi password
C20_Witness ==
    /\ pc = "served"
    /\ response.kind = "config"
    /\ file.ok /\ "password" \in file.keys
    /\ Truthy(file.v.password)
    /\ "mqtt_pass" \in file.keys

(***************************************************************************)
(* The events of one sampling tick                                         *)
(***************************************************************************)
\* positions in the tick's log at which an event of the given kind stands
EventsAt(kind) == {i \in 1..Len(tickLog) : tickLog[i] = kind}

\* C21: between two consecutive resets of the interval timer the sensor is
\* sampled (one run of the averaging read) at most once and a publish is
\* attempted at most once.
C21_OneSampleOnePublishPerInterval ==
    /\ Cardinality(EventsAt("sample")) <= 1
    /\ Cardinality(EventsAt("publish")) <= 1

\* the colour the indicator shows for a percent (in tenths): red below 20,
\* orange below 50, green from 50 up, scaled by the brightness
BandColour(percentTenths, brightness) ==
    IF percentTenths < 200 THEN <<brightness, 0, 0>>
    ELSE IF percentTenths < 500
    THEN <<brightness, (165 * brightness) \div 255, 0>>
    ELSE <<0, brightness, 0>>

\* C22: within a sampling tick every indicator update directly follows a
\* sample and shows that sample's percent, and the publish attempt comes
\* after every sample and every indicator update of the tick and carries
\* the reading the indicator shows.
C22_SampleThenIndicatorThenPublish ==
    pc \in {"tick", "accept", "restarted", "crashed"}
    => /\ \A i \in EventsAt("indicator") : i > 1 /\ tickLog[i - 1] = "sample"
       /\ \A j \in EventsAt("publish") :
             \A i \in EventsAt("sample") \cup EventsAt("indicator") : i < j
       /\ (np /\ EventsAt("indicator") # {})
             => np_color = BandColour(current_moisture_percent,
                                      BRIGHTNESS_LEVEL)
       /\ cycle.published # NoPayload
             => /\ cycle.published.raw = current_raw_reading
                /\ cycle.published.moisture_percent
                      = current_moisture_percent

\* a tick sampled a half-wet probe, lit the indicator green and then
\* published that reading
C22_Witness ==
    /\ pc = "accept"
    /\ np
    /\ EventsAt("sample") # {} /\ EventsAt("indicator") # {}
    /\ EventsAt("publish") # {}
    /\ cycle.published # NoPayload
    /\ current_moisture_percent = 500
    /\ np_color[1] = 0 /\ np_color[2] > 0

\* C23: the publisher's connection handle is absent (None) whenever there
\* is no open broker connection: a failed connection attempt or a
\* disconnect leaves the handle absent.
C23_HandleAbsentWhenNotConnected ==
    brokerConn # "open" => mqtt_client = "None"

\* C24: the broker connection is lazy: a step creates the client or makes
\* the first connection attempt only as part of a sampling tick's publish
\* that found the handle absent.
C24_ConnectOnlyInsidePublish ==
    [][ \/ (~history.connectAttempted /\ history'.connectAttempted)
        \/ (mqtt_client = "None" /\ mqtt_client' # "None")
        => /\ cycle'.ran
           /\ cycle'.connectTried
           /\ cycle'.clientAtStart = "None" ]_vars

\* C25: every accepted connection is closed before the dispatcher goes
\* back to accept the next one, whether the request was answered or
\* recv(), send() or the routing raised; and an exception raised while
\* routing leaves the loop running.
C25_ConnectionClosedOnEveryPath ==
    /\ pc \in LoopPositions => ~conn_open
    /\ handled = "raise" => pc = "served"

(***************************************************************************)
(* The program with its scheduling: the one thread of control keeps       *)
(* running, and an accept() that is reached again and again returns by    *)
(* its timeout again and again                                             *)
(***************************************************************************)
LiveSpec ==
    /\ Spec
    /\ WF_vars(BootLoadConfig) /\ WF_vars(BootStartConnect)
    /\ WF_vars(WifiPoll) /\ WF_vars(WifiConnected) /\ WF_vars(WifiFailed)
    /\ WF_vars(BootStartPortal) /\ WF_vars(MainInit)
    /\ WF_vars(RunProjectStart)
    /\ WF_vars(SampleFirstRead) /\ WF_vars(SampleTickBody)
    /\ WF_vars(LoopBack)
    /\ SF_vars(AcceptTimeout)

\* the dispatcher loop runs in Station mode and is at its top
StationLoop == pc = "loop" /\ ~is_config_mode

\* C26: in Station mode a sampling tick occurs again and again, whether or
\* not a client ever connects, and a tick starts only when more than one
\* reading interval has elapsed since the previous tick finished.
C26_TicksRecurInStationMode ==
    /\ StationLoop ~> cycle.ran
    /\ [][(pc = "loop" /\ pc' \in {"tick", "crashed"})
            => since > READING_DELAY_MS]_vars

\* C27: when the ADC failed to initialise, the reading is the neutral one
\* (raw 0, percent 0.0) in every state of the dispatcher loop, no tick takes
\* a sample or raises, every tick that has run left the loop running (or
\* restarted the device on a reboot command), and what a tick publishes is
\* the neutral reading.
C27_NoAdcNeutralReading ==
    (~adc /\ pc \in LoopPositions \cup {"crashed", "restarted"})
    => /\ current_raw_reading = 0
       /\ current_moisture_percent = 0
       /\ pc # "crashed"
       /\ EventsAt("sample") = {}
       /\ cycle.ran => pc \in {"accept", "restarted"}
       /\ cycle.published # NoPayload
             => /\ cycle.published.raw = 0
                /\ cycle.published.moisture_percent = 0

\* a tick has run without an ADC on equal calibration bounds, and the
\* dispatcher is back at accept()
C27_Witness ==
    /\ ~adc
    /\ pc = "accept"
    /\ cycle.ran
    /\ EventsAt("neutral") # {}
    /\ CALIBRATION_DRY = CALIBRATION_WET

\* C28: while the device is in AccessPoint mode no sampling tick runs, the
\* indicator is never written, no broker client is created, no connection
\* attempt or publish is made, and the current reading keeps its initial
\* value (raw 0, percent 0.0).
C28_AccessPointNeverSamples ==
    ap_active
    => /\ pc \notin {"tick", "crashed"}
       /\ tickLog = <<>>
       /\ cycle = NoCycle
       /\ np_color = <<0, 0, 0>>
       /\ mqtt_client = "None" /\ brokerConn = "closed"
       /\ ~history.clientConstructed /\ ~history.connectAttempted
       /\ current_raw_reading = 0
       /\ current_moisture_percent = 0
       /\ current_temp_c = 0 /\ current_humidity = 0

\* the access point has been up, with ADC and NeoPixel present, for longer
\* than a reading interval and is at the top of the loop again
C28_Witness ==
    /\ ap_active /\ is_config_mode
    /\ adc /\ np
    /\ pc = "loop"
    /\ since > READING_DELAY_MS

====
